---- MODULE Spec2Model ----
(***************************************************************************)
(* Model of src/app.py: the TextFormatter (wrap_paragraph, justify_line,   *)
(* justify_paragraph, format_text) and the POST /format handler.           *)
(*                                                                         *)
(* A Python str is a sequence of one-character strings; a List[str] is a   *)
(* sequence of such sequences.  A call that can raise returns a record     *)
(* [raised, value].                                                        *)
(***************************************************************************)
EXTENDS Integers, Sequences, FiniteSets, TLC

VARIABLES text, width, justify, justify_last_line,
          pc, paragraphs, p_cleans, wrapped_paras, lines_paras,
          formatted_paras, formatted, lines, ret

vars == <<text, width, justify, justify_last_line,
          pc, paragraphs, p_cleans, wrapped_paras, lines_paras,
          formatted_paras, formatted, lines, ret>>

\* ---------------------------------------------------------------- bounds
MaxLen == 7
MaxWidth == 6

\* ------------------------------------------------------------ characters
SP == " "
NL == "\n"
Chars == {"a", SP, NL}

IsSpace(c) == c \in {SP, NL}

Max(a, b) == IF a >= b THEN a ELSE b

\* " " * n ; a non-positive count gives the empty string
Spaces(n) == [i \in 1..n |-> SP]

\* ------------------------------------------------------- str primitives
RECURSIVE split_scan(_, _, _, _)
split_scan(s, i, cur, acc) ==
    IF i > Len(s)
    THEN IF cur # <<>> THEN Append(acc, cur) ELSE acc
    ELSE IF IsSpace(s[i])
         THEN split_scan(s, i + 1, <<>>, IF cur # <<>> THEN Append(acc, cur) ELSE acc)
         ELSE split_scan(s, i + 1, Append(cur, s[i]), acc)

\* str.split() with no argument: maximal runs of non-whitespace
split(s) == split_scan(s, 1, <<>>, <<>>)

RECURSIVE join(_, _)
\* sep.join(parts)
join(sep, parts) ==
    IF parts = <<>> THEN <<>>
    ELSE IF Len(parts) = 1 THEN parts[1]
    ELSE parts[1] \o sep \o join(sep, Tail(parts))

RECURSIVE lstrip(_)
lstrip(s) == IF s # <<>> /\ IsSpace(s[1]) THEN lstrip(Tail(s)) ELSE s

RECURSIVE rstrip(_)
rstrip(s) ==
    IF s # <<>> /\ IsSpace(s[Len(s)]) THEN rstrip(SubSeq(s, 1, Len(s) - 1)) ELSE s

\* str.strip()
strip(s) == rstrip(lstrip(s))

\* variant of the pattern: a single line break separates paragraphs
match_end_one_newline(s, i) == IF s[i] = NL THEN i ELSE 0

\* End of the match of \n\s*\n that starts at position i, 0 when there is
\* none: \s* is greedy, so the match runs to the last newline of the
\* whitespace run that follows s[i].
match_end(s, i) ==
    IF s[i] # NL THEN 0
    ELSE LET cand == {j \in (i + 1)..Len(s) :
                        /\ s[j] = NL
                        /\ \A k \in (i + 1)..(j - 1) : IsSpace(s[k])}
         IN  IF cand = {} THEN 0
             ELSE CHOOSE j \in cand : \A k \in cand : k <= j

RECURSIVE re_split_scan(_, _, _, _)
re_split_scan(s, i, start, acc) ==
    IF i > Len(s) THEN Append(acc, SubSeq(s, start, Len(s)))
    ELSE LET e == match_end(s, i)
         IN  IF e = 0 THEN re_split_scan(s, i + 1, start, acc)
             ELSE re_split_scan(s, e + 1, e + 1, Append(acc, SubSeq(s, start, i - 1)))

\* re.split(r'\n\s*\n', s)
re_split(s) == re_split_scan(s, 1, 1, <<>>)

RECURSIVE splitlines_scan(_, _, _, _)
splitlines_scan(s, i, cur, acc) ==
    IF i > Len(s)
    THEN IF cur # <<>> THEN Append(acc, cur) ELSE acc
    ELSE IF s[i] = NL
         THEN splitlines_scan(s, i + 1, <<>>, Append(acc, cur))
         ELSE splitlines_scan(s, i + 1, Append(cur, s[i]), acc)

\* str.splitlines(): no trailing empty entry for a final line break
splitlines(s) == splitlines_scan(s, 1, <<>>, <<>>)

RECURSIVE SumLen(_)
\* sum(len(w) for w in words)
SumLen(words) == IF words = <<>> THEN 0 ELSE Len(words[1]) + SumLen(Tail(words))

\* ------------------------------------------------------- wrap_paragraph
\* variants of the test of line 120: no separator counted, strict
\* comparison, pending length ignored
FitsNoSeparator(curr_len, w, w_max) == curr_len + Len(w) <= w_max

FitsStrict(curr_len, w, w_max) == curr_len + 1 + Len(w) < w_max

FitsIgnoringCurrent(curr_len, w, w_max) == Len(w) <= w_max

\* the test of line 120
Fits(curr_len, w, w_max) == curr_len + 1 + Len(w) <= w_max

\* variant of lines 127-128: the pending line is not emitted
FlushNothing(lns, current) == lns

\* lines 127-128: emit the pending line
Flush(lns, current) == IF current # <<>> THEN Append(lns, join(<<SP>>, current)) ELSE lns

RECURSIVE wrap_loop(_, _, _, _, _, _)
wrap_loop(words, k, lns, current, curr_len, w_max) ==
    IF k > Len(words) THEN Flush(lns, current)
    ELSE LET w == words[k]
         IN  IF curr_len = 0
             THEN wrap_loop(words, k + 1, lns, Append(current, w), Len(w), w_max)
             ELSE IF Fits(curr_len, w, w_max)
             THEN wrap_loop(words, k + 1, lns, Append(current, w),
                            curr_len + 1 + Len(w), w_max)
             ELSE wrap_loop(words, k + 1, Append(lns, join(<<SP>>, current)),
                            <<w>>, Len(w), w_max)

wrap_paragraph(paragraph, w_max) == wrap_loop(split(paragraph), 1, <<>>, <<>>, 0, w_max)

\* ---------------------------------------------------------- justify_line
Return(v) == [raised |-> FALSE, value |-> v]
ZeroDivisionError == [raised |-> TRUE, value |-> <<>>]

\* divmod(a, b): floor division, raises on b = 0
divmod(a, b) ==
    IF b = 0 THEN ZeroDivisionError
    ELSE Return([q |-> a \div b, r |-> a % b])

\* variants of line 164: no extra space, one gap too many gets the extra
gap_spaces_no_extra(i, base_space, extra) == base_space

gap_spaces_one_more(i, base_space, extra) == base_space + (IF i <= extra THEN 1 ELSE 0)

\* line 164; i is the 0-based index of the word the gap follows
gap_spaces(i, base_space, extra) == base_space + (IF i < extra THEN 1 ELSE 0)

RECURSIVE justify_parts(_, _, _, _, _)
\* lines 160-166, from the k-th word (1-based) on
justify_parts(words, k, gaps, base_space, extra) ==
    IF k > Len(words) THEN <<>>
    ELSE words[k]
         \o (IF k - 1 < gaps THEN Spaces(gap_spaces(k - 1, base_space, extra)) ELSE <<>>)
         \o justify_parts(words, k + 1, gaps, base_space, extra)

\* lines 156-166
justify_multi(words, w_max) ==
    LET total_words_len == SumLen(words)
        total_spaces == w_max - total_words_len
        gaps == Len(words) - 1
        dm == divmod(total_spaces, gaps)
    IN  IF dm.raised THEN ZeroDivisionError
        ELSE Return(justify_parts(words, 1, gaps, dm.value.q, dm.value.r))

\* variant of justify_line without the single-word branch of lines 154-155
justify_line_no_single(words, w_max) ==
    IF words = <<>> THEN Return(<<>>)
    ELSE justify_multi(words, w_max)

\* lines 152-166
justify_line(words, w_max) ==
    IF words = <<>> THEN Return(<<>>)
    ELSE IF Len(words) = 1
    THEN Return(words[1] \o Spaces(Max(0, w_max - Len(words[1]))))
    ELSE justify_multi(words, w_max)

\* ----------------------------------------------------- justify_paragraph
\* variant of line 195: the last line is never justified
keeps_ragged_always(i, n, jll) == i = n - 1

\* line 195; i is the 0-based line index, n = len(wrapped)
keeps_ragged(i, n, jll) == i = n - 1 /\ ~jll

justify_paragraph(paragraph, w_max, jll) ==
    LET wrapped == wrap_paragraph(paragraph, w_max)
        n == Len(wrapped)
        one(i) == LET words == split(wrapped[i])
                  IN  IF keeps_ragged(i - 1, n, jll)
                      THEN Return(join(<<SP>>, words))
                      ELSE justify_line(words, w_max)
    IN  IF \E i \in 1..n : one(i).raised THEN ZeroDivisionError
        ELSE Return([i \in 1..n |-> one(i).value])

\* ------------------------------------------------------------ format_text
\* line 235
normalize(p) == join(<<SP>>, split(p))

\* lines 235-239: the lines of one paragraph
paragraph_lines(p, w_max, j, jll) ==
    IF j THEN justify_paragraph(normalize(p), w_max, jll)
    ELSE Return(wrap_paragraph(normalize(p), w_max))

\* line 232
split_paragraphs(t) == re_split(strip(t))

\* line 240
join_lines(lns) == join(<<NL>>, lns)

\* variant of line 241: paragraphs joined by a single line break
join_paragraphs_one_newline(ps) == join(<<NL>>, ps)

\* line 241
join_paragraphs(ps) == join(<<NL, NL>>, ps)

format_text(t, w_max, j, jll) ==
    LET ps == split_paragraphs(t)
        one(i) == paragraph_lines(ps[i], w_max, j, jll)
    IN  IF \E i \in 1..Len(ps) : one(i).raised THEN ZeroDivisionError
        ELSE Return(join_paragraphs([i \in 1..Len(ps) |-> join_lines(one(i).value)]))

\* ----------------------------------------------------------------- inputs
RECURSIVE StringsUpTo(_)
StringsUpTo(n) ==
    IF n = 0 THEN {<<>>}
    ELSE LET shorter == StringsUpTo(n - 1)
         IN  shorter \cup {Append(s, c) : s \in {x \in shorter : Len(x) = n - 1}, c \in Chars}

\* FormatRequest.text
Texts == StringsUpTo(MaxLen)

\* FormatRequest.width
Widths == 0..MaxWidth

\* ------------------------------------------------------------------ state
Init ==
    /\ text \in Texts
    /\ width \in Widths
    /\ justify \in BOOLEAN
    /\ justify_last_line \in BOOLEAN
    /\ pc = "start"
    /\ paragraphs = <<>>
    /\ p_cleans = <<>>
    /\ wrapped_paras = <<>>
    /\ lines_paras = <<>>
    /\ formatted_paras = <<>>
    /\ formatted = <<>>
    /\ lines = <<>>
    /\ ret = <<>>

request == <<text, width, justify, justify_last_line>>

\* format_text, line 232-233
SplitParagraphs ==
    /\ pc = "start"
    /\ paragraphs' = split_paragraphs(text)
    /\ pc' = "loop"
    /\ UNCHANGED <<request, p_cleans, wrapped_paras, lines_paras,
                   formatted_paras, formatted, lines, ret>>

\* format_text, one iteration of the loop of lines 234-240
FormatParagraph ==
    /\ pc = "loop"
    /\ Len(formatted_paras) < Len(paragraphs)
    /\ LET p == paragraphs[Len(formatted_paras) + 1]
           r == paragraph_lines(p, width, justify, justify_last_line)
       IN  IF r.raised
           THEN /\ pc' = "error"
                /\ UNCHANGED <<p_cleans, wrapped_paras, lines_paras, formatted_paras>>
           ELSE /\ pc' = "loop"
                /\ p_cleans' = Append(p_cleans, normalize(p))
                /\ wrapped_paras' = Append(wrapped_paras, wrap_paragraph(normalize(p), width))
                /\ lines_paras' = Append(lines_paras, r.value)
                /\ formatted_paras' = Append(formatted_paras, join_lines(r.value))
    /\ UNCHANGED <<request, paragraphs, formatted, lines, ret>>

\* format_text, line 241
JoinParagraphs ==
    /\ pc = "loop"
    /\ Len(formatted_paras) = Len(paragraphs)
    /\ formatted' = join_paragraphs(formatted_paras)
    /\ pc' = "return"
    /\ UNCHANGED <<request, paragraphs, p_cleans, wrapped_paras, lines_paras,
                   formatted_paras, lines, ret>>

\* format_endpoint, lines 272-273
Respond ==
    /\ pc = "return"
    /\ lines' = splitlines(formatted)
    /\ pc' = "done"
    /\ UNCHANGED <<request, paragraphs, p_cleans, wrapped_paras, lines_paras,
                   formatted_paras, formatted, ret>>

\* A direct call of TextFormatter.wrap_paragraph(text, width)
CallWrapParagraph ==
    /\ pc = "start"
    /\ ret' = wrap_paragraph(text, width)
    /\ pc' = "wrap_paragraph"
    /\ UNCHANGED <<request, paragraphs, p_cleans, wrapped_paras, lines_paras,
                   formatted_paras, formatted, lines>>

\* A direct call of TextFormatter.justify_line(text.split(), width)
CallJustifyLine ==
    /\ pc = "start"
    /\ LET r == justify_line(split(text), width)
       IN  IF r.raised THEN pc' = "error" /\ ret' = <<>>
           ELSE pc' = "justify_line" /\ ret' = r.value
    /\ UNCHANGED <<request, paragraphs, p_cleans, wrapped_paras, lines_paras,
                   formatted_paras, formatted, lines>>

\* A direct call of TextFormatter.justify_paragraph(text, width, justify_last_line)
CallJustifyParagraph ==
    /\ pc = "start"
    /\ LET r == justify_paragraph(text, width, justify_last_line)
       IN  IF r.raised THEN pc' = "error" /\ ret' = <<>>
           ELSE pc' = "justify_paragraph" /\ ret' = r.value
    /\ UNCHANGED <<request, paragraphs, p_cleans, wrapped_paras, lines_paras,
                   formatted_paras, formatted, lines>>

Next ==
    \/ SplitParagraphs
    \/ FormatParagraph
    \/ JoinParagraphs
    \/ Respond
    \/ CallWrapParagraph
    \/ CallJustifyLine
    \/ CallJustifyParagraph

Spec == Init /\ [][Next]_vars

\* ------------------------------------------------- vocabulary of the claims
RECURSIVE Flatten(_)
Flatten(ss) == IF ss = <<>> THEN <<>> ELSE ss[1] \o Flatten(Tail(ss))

\* the words of each line, concatenated in line order
WordsOfLines(lns) == Flatten([i \in 1..Len(lns) |-> split(lns[i])])

\* number of consecutive spaces of out starting at position pos
SpaceRun(out, pos) ==
    LET ok == {r \in 0..(Len(out) - pos + 1) : \A k \in pos..(pos + r - 1) : out[k] = SP}
    IN  CHOOSE r \in ok : \A q \in ok : q <= r

StartsWith(out, pos, w) ==
    /\ pos + Len(w) - 1 <= Len(out)
    /\ SubSeq(out, pos, pos + Len(w) - 1) = w

RECURSIVE GapsFrom(_, _, _, _)
\* The gap sizes read off a line: out is scanned from pos as words[k],
\* a run of spaces, words[k+1], ...; <<-1>> marks text that is not that.
GapsFrom(out, pos, words, k) ==
    IF ~StartsWith(out, pos, words[k]) THEN <<-1>>
    ELSE LET after == pos + Len(words[k])
         IN  IF k = Len(words)
             THEN IF after = Len(out) + 1 THEN <<>> ELSE <<-1>>
             ELSE LET r == SpaceRun(out, after)
                  IN  <<r>> \o GapsFrom(out, after + r, words, k + 1)

MeasuredGaps(out, words) == GapsFrom(out, 1, words, 1)

RECURSIVE SumSeq(_)
SumSeq(g) == IF g = <<>> THEN 0 ELSE g[1] + SumSeq(Tail(g))

\* a wrapped line obeys the width, or is one word longer than the width
WidthBounded(line, w_max) ==
    \/ Len(line) <= w_max
    \/ /\ Len(split(line)) = 1
       /\ Len(split(line)[1]) > w_max
       /\ Len(line) = Len(split(line)[1])

Processed == 1..Len(lines_paras)

\* C1: with width >= 1, every line wrap_paragraph returns for a normalized
\* paragraph is at most width long, or is a single word longer than width
\* whose length is the line's length; a line of two or more words never
\* exceeds width.
C1_WidthBound ==
    /\ (pc = "wrap_paragraph" /\ width >= 1 /\ text = normalize(text)) =>
           \A i \in 1..Len(ret) : WidthBounded(ret[i], width)
    /\ width >= 1 =>
           \A k \in Processed : \A i \in 1..Len(wrapped_paras[k]) :
               WidthBounded(wrapped_paras[k][i], width)

C1_Witness ==
    /\ pc = "wrap_paragraph" /\ width >= 1 /\ text = normalize(text)
    /\ Len(ret) >= 2
    /\ \E i \in 1..Len(ret) : Len(split(ret[i])) >= 2 /\ Len(ret[i]) = width
    /\ \E i \in 1..Len(ret) : Len(split(ret[i])) = 1

\* the lines of processed paragraph k that were handed to justify_line
Justified(k) ==
    {i \in 1..Len(wrapped_paras[k]) :
        justify /\ (i < Len(wrapped_paras[k]) \/ justify_last_line)}

\* C2: with justify = true and width >= 1, every line of a paragraph but its
\* last has length exactly width, unless it is a single word longer than
\* width (its length is then the word's); a shorter single word is padded
\* on the right to width.
C2_JustifiedWidth ==
    (justify /\ width >= 1) =>
        \A k \in Processed : \A i \in 1..(Len(lines_paras[k]) - 1) :
            LET out == lines_paras[k][i]
                words == split(out)
            IN  \/ Len(out) = width
                \/ /\ Len(words) = 1
                   /\ Len(words[1]) > width
                   /\ out = words[1]

C2_Witness ==
    /\ justify /\ width >= 1
    /\ \E k \in Processed : \E i \in 1..(Len(lines_paras[k]) - 1) :
           /\ Len(split(wrapped_paras[k][i])) >= 2
           /\ Len(wrapped_paras[k][i]) < width
           /\ Len(lines_paras[k][i]) = width

\* what justify_paragraph must return for the wrapped lines, by the
\* last-line policy
LastLinePolicy(out, wrapped, w_max, jll) ==
    /\ Len(out) = Len(wrapped)
    /\ \A i \in 1..Len(wrapped) :
         IF i = Len(wrapped) /\ ~jll
         THEN out[i] = wrapped[i]
         ELSE out[i] = justify_line(split(wrapped[i]), w_max).value

\* C3: with justify = true and width >= 1, every line but the last is the
\* result of justify_line on the wrapped line's words; the last line is the
\* last line of wrap_paragraph unchanged when justify_last_line is false, and
\* the result of justify_line when it is true.
C3_LastLinePolicy ==
    /\ (pc = "justify_paragraph" /\ width >= 1) =>
           LastLinePolicy(ret, wrap_paragraph(text, width), width, justify_last_line)
    /\ (justify /\ width >= 1) =>
           \A k \in Processed :
               LastLinePolicy(lines_paras[k], wrap_paragraph(p_cleans[k], width),
                              width, justify_last_line)

C3_Witness ==
    /\ pc = "justify_paragraph" /\ width >= 1 /\ ~justify_last_line
    /\ Len(ret) >= 2
    /\ Len(split(ret[Len(ret)])) >= 2
    /\ Len(ret[Len(ret)]) < width
    /\ Len(ret[1]) = width
    /\ ret[1] # wrap_paragraph(text, width)[1]

\* C4: justify_line on n >= 2 words with total_spaces >= 0 puts base + 1
\* spaces in each of the extra leftmost gaps and base spaces in the others
\* (base = total_spaces div gaps, extra = total_spaces mod gaps); the gaps
\* sum to total_spaces and never grow from left to right.
C4_LeftmostGaps ==
    LET words == split(text)
        total_spaces == width - SumLen(words)
        gaps == Len(words) - 1
    IN  (pc = "justify_line" /\ Len(words) >= 2 /\ total_spaces >= 0) =>
            LET g == MeasuredGaps(ret, words)
                base == total_spaces \div gaps
                extra == total_spaces % gaps
            IN  /\ Len(g) = gaps
                /\ \A i \in 1..gaps : g[i] = IF i - 1 < extra THEN base + 1 ELSE base
                /\ Cardinality({i \in 1..gaps : g[i] = base + 1}) = extra
                /\ SumSeq(g) = total_spaces
                /\ \A i \in 1..(gaps - 1) : g[i] >= g[i + 1]

C4_Witness ==
    LET words == split(text)
        total_spaces == width - SumLen(words)
    IN  /\ pc = "justify_line" /\ Len(words) >= 3
        /\ total_spaces >= Len(words)
        /\ total_spaces % (Len(words) - 1) > 0
        /\ MeasuredGaps(ret, words)[1] > MeasuredGaps(ret, words)[Len(words) - 1]

\* C5: for every paragraph and width, the words of the lines of
\* wrap_paragraph, taken in line order, are exactly the words of the
\* paragraph, and no line is empty.
C5_WordsPreserved ==
    /\ pc = "wrap_paragraph" =>
           /\ WordsOfLines(ret) = split(text)
           /\ \A i \in 1..Len(ret) : ret[i] # <<>>
    /\ \A k \in Processed :
           /\ WordsOfLines(wrapped_paras[k]) = split(paragraphs[k])
           /\ \A i \in 1..Len(wrapped_paras[k]) : wrapped_paras[k][i] # <<>>

C5_Witness ==
    /\ pc = "wrap_paragraph"
    /\ text # normalize(text)
    /\ Len(ret) >= 2
    /\ \E i \in 1..Len(ret) : Len(split(ret[i])) >= 2
    /\ \E i, j \in 1..Len(split(text)) : Len(split(text)[i]) # Len(split(text)[j])

\* C6: wrap-only formatting of a single-paragraph text is idempotent for
\* width >= 1: formatting the output again with the same width gives the
\* same output, and the output is still read as one paragraph.
C6_WrapIdempotent ==
    (pc \in {"return", "done"} /\ ~justify /\ width >= 1 /\ Len(paragraphs) = 1) =>
        /\ format_text(formatted, width, FALSE, FALSE) = Return(formatted)
        /\ Len(split_paragraphs(formatted)) = 1

C6_Witness ==
    /\ pc = "return" /\ ~justify /\ width >= 1 /\ Len(paragraphs) = 1
    /\ Len(lines_paras[1]) >= 2
    /\ \E i \in 1..Len(lines_paras[1]) : Len(split(lines_paras[1][i])) >= 2
    /\ formatted # text

RECURSIVE Pieces(_, _, _, _)
\* s cut at every line break, empty pieces kept
Pieces(s, i, cur, acc) ==
    IF i > Len(s) THEN Append(acc, cur)
    ELSE IF s[i] = NL THEN Pieces(s, i + 1, <<>>, Append(acc, cur))
    ELSE Pieces(s, i + 1, Append(cur, s[i]), acc)

RECURSIVE WithBlankLines(_)
\* the lines of the paragraphs, one empty entry between two paragraphs
WithBlankLines(pls) ==
    IF pls = <<>> THEN <<>>
    ELSE IF Len(pls) = 1 THEN pls[1]
    ELSE pls[1] \o <<<<>>>> \o WithBlankLines(Tail(pls))

HasWord(s) == \E i \in 1..Len(s) : ~IsSpace(s[i])

\* C7: for a text with at least one word: every paragraph of the split has a
\* word; formatted is the paragraphs' lines with exactly one blank line
\* between consecutive paragraphs and none leading or trailing; the response
\* lines hold exactly k-1 empty entries, at the paragraph boundaries, and
\* joined by line breaks give formatted.
C7_ParagraphSeparation ==
    HasWord(text) =>
        /\ \A k \in 1..Len(paragraphs) : HasWord(paragraphs[k])
        /\ \A k \in Processed : /\ lines_paras[k] # <<>>
                                /\ \A i \in 1..Len(lines_paras[k]) :
                                       HasWord(lines_paras[k][i])
        /\ pc \in {"return", "done"} =>
               /\ Len(paragraphs) >= 1
               /\ Pieces(formatted, 1, <<>>, <<>>) = WithBlankLines(lines_paras)
        /\ pc = "done" =>
               /\ lines = WithBlankLines(lines_paras)
               /\ Cardinality({i \in 1..Len(lines) : lines[i] = <<>>}) = Len(paragraphs) - 1
               /\ \A i \in 1..Len(lines) : lines[i] = <<>> =>
                      /\ 1 < i /\ i < Len(lines)
                      /\ lines[i - 1] # <<>> /\ lines[i + 1] # <<>>
               /\ join(<<NL>>, lines) = formatted

C7_Witness ==
    /\ pc = "done" /\ HasWord(text)
    /\ Len(paragraphs) >= 2
    /\ \E k \in Processed : Len(lines_paras[k]) >= 2
    /\ Cardinality({i \in 1..Len(lines) : lines[i] = <<>>}) = Len(paragraphs) - 1

\* C8: with width >= 1 the pipeline never raises and never stops short of
\* its result, which is a string; no line it justifies divides by zero gaps
\* or gets a negative number of padding spaces.
C8_Total ==
    width >= 1 =>
        /\ pc # "error"
        /\ pc = "loop" => Len(formatted_paras) <= Len(paragraphs)
        /\ pc \in {"return", "done"} => \A i \in 1..Len(formatted) : formatted[i] \in Chars
        /\ \A k \in Processed : \A i \in Justified(k) :
               LET words == split(wrapped_paras[k][i])
                   out == lines_paras[k][i]
               IN  IF Len(words) = 1
                   THEN Len(out) - Len(words[1]) = Max(0, width - Len(words[1]))
                   ELSE /\ Len(words) - 1 > 0
                        /\ width - SumLen(words) >= 0
                        /\ \A j \in 1..Len(MeasuredGaps(out, words)) :
                               MeasuredGaps(out, words)[j] >= 0

C8_Witness ==
    /\ pc = "done" /\ width >= 1 /\ justify /\ justify_last_line
    /\ \E k \in Processed : \E i \in Justified(k) :
           Len(split(wrapped_paras[k][i])) = 1 /\ Len(wrapped_paras[k][i]) < width
    /\ \E k \in Processed : \E i \in Justified(k) :
           Len(split(wrapped_paras[k][i])) >= 2

\* consecutive lines are separated only where the next word did not fit
Greedy(lns, w_max) ==
    \A i \in 1..(Len(lns) - 1) :
        Len(lns[i]) + 1 + Len(split(lns[i + 1])[1]) > w_max

\* C9: wrap_paragraph is greedy: for every two consecutive lines, the first
\* line plus a space plus the first word of the next line is longer than
\* width.
C9_Greedy ==
    /\ pc = "wrap_paragraph" => Greedy(ret, width)
    /\ \A k \in Processed : Greedy(wrapped_paras[k], width)

C9_Witness ==
    /\ pc = "wrap_paragraph"
    /\ \E i \in 1..(Len(ret) - 1) :
           /\ Len(split(ret[i])) >= 2
           /\ Len(ret[i]) < width
           /\ Len(ret[i]) + 1 + Len(split(ret[i + 1])[1]) > width

\* the multi-word lines of wrapped that justify_paragraph hands to
\* justify_line keep at least one space in every gap
GapsKept(out, wrapped, w_max, jll) ==
    \A i \in 1..Len(wrapped) :
        LET words == split(wrapped[i])
            gaps == Len(words) - 1
        IN  ((i < Len(wrapped) \/ jll) /\ Len(words) >= 2) =>
                /\ w_max - SumLen(words) >= gaps
                /\ Len(MeasuredGaps(out[i], words)) = gaps
                /\ \A j \in 1..gaps : MeasuredGaps(out[i], words)[j] >= 1
                /\ split(out[i]) = words
                /\ Len(wrapped[i]) = w_max => out[i] = wrapped[i]

\* C10: in justify_paragraph, for any width, a line of two or more words
\* handed to justify_line has total_spaces >= gaps: every gap of the result
\* holds at least one space, the words stay apart, and a line already width
\* long is returned unchanged.
C10_GapsAtLeastOne ==
    /\ pc = "justify_paragraph" =>
           GapsKept(ret, wrap_paragraph(text, width), width, justify_last_line)
    /\ justify =>
           \A k \in Processed :
               GapsKept(lines_paras[k], wrapped_paras[k], width, justify_last_line)

C10_Witness ==
    /\ pc = "justify_paragraph"
    /\ LET wrapped == wrap_paragraph(text, width)
       IN  /\ Len(wrapped) >= 2
           /\ Len(split(wrapped[1])) >= 2
           /\ Len(wrapped[1]) = width
           /\ ret[1] = wrapped[1]
====
